---- MODULE Spec2Model ----
(***************************************************************************)
(* State-machine model of the LiveVoice component                          *)
(* (src/components/LiveVoice.tsx): its React state, its refs, the          *)
(* connection attempts made by connectSession, the callbacks of the live   *)
(* sessions (onopen / onmessage / onclose / onerror), the audio sources    *)
(* scheduled by onmessage, the script processor and the visual loop.       *)
(*                                                                         *)
(* One step of the model is one run of a handler up to its next await; an  *)
(* awaited promise that is already settled is resumed before any other     *)
(* handler runs (the microtask queue is drained first).  React state is    *)
(* the state as committed after the handler.                               *)
(***************************************************************************)
EXTENDS Integers, FiniteSets, Sequences, TLC

\* ---------------------------------------------------------------- bounds
MaxAttempts == 3
MaxMsgs == 2
MaxTime == 1
MaxPlaybackAttempts == 2
MaxMicAttempts == 2
\* ChatInterface: accepted submits, chunks with text per reply, milliseconds
\* of Date.now().
MaxSubmits == 2
MaxChunks == 1
MaxClock == 1

\* ------------------------------------------------------ program constants
ApiKeyPresent == TRUE
VolOne == 25

Attempts == 1..MaxAttempts
Msgs == 1..MaxMsgs
Durations == {1}
Null == 0

VARIABLES
    mounted,
    isActive, isConnecting, isAiSpeaking, isMicOn, error, visualVolume,
    inputAudioContextRef, outputAudioContextRef, processorRef, outputNodeRef,
    streamRef, currentVolumeRef, animationFrameRef, nextStartTimeRef,
    sourcesRef, sessionPromiseRef,
    attempt, session, inCtx, outCtx, stream, processor, loops, pendingDisc,
    msg, lastFrame, disconnected

reactVars == <<isActive, isConnecting, isAiSpeaking, isMicOn, error, visualVolume>>
refVars == <<inputAudioContextRef, outputAudioContextRef, processorRef, outputNodeRef,
             streamRef, currentVolumeRef, animationFrameRef, nextStartTimeRef,
             sourcesRef, sessionPromiseRef>>
envVars == <<attempt, session, inCtx, outCtx, stream, processor, loops, pendingDisc,
             msg, lastFrame, disconnected>>

\* The ChatInterface component (src/components/ChatInterface.tsx): its React
\* state (messages, input, isLoading), its chat ref, the calls of handleSubmit
\* suspended at an await (requests), the clock read by Date.now(), and two
\* history variables: the texts of the accepted submits in order, and the
\* outcome of the latest call of handleSubmit.
VARIABLES
    chatMounted, messages, input, isLoading, chatRef, chatKey, requests, chatClock,
    submitted, lastSubmit

chatVars == <<chatMounted, messages, input, isLoading, chatRef, chatKey, requests,
              chatClock, submitted, lastSubmit>>

vars == <<mounted, reactVars, refVars, envVars, chatVars>>

Requests == 1..MaxSubmits
NoRequest == [pc |-> "none", botId |-> Null, fullText |-> <<>>]
NoAttempt == [pc |-> "none", mic |-> TRUE]
NoSession == [st |-> "none", promise |-> "none", closeCalled |-> FALSE, errored |-> FALSE]
NoCtx == [st |-> "none", time |-> 0]
NoProcessor == [st |-> "none", ctx |-> Null]
NoMsg == [pc |-> "none", sess |-> Null, audio |-> FALSE, intr |-> FALSE, dur |-> 0,
          ctx |-> Null, src |-> "none", startAt |-> 0, playAt |-> 0]

Init ==
    /\ mounted = TRUE
    /\ isActive = FALSE
    /\ isConnecting = FALSE
    /\ isAiSpeaking = FALSE
    /\ isMicOn = TRUE
    /\ error = "null"
    /\ visualVolume = 0
    /\ inputAudioContextRef = Null
    /\ outputAudioContextRef = Null
    /\ processorRef = Null
    /\ outputNodeRef = Null
    /\ streamRef = Null
    /\ currentVolumeRef = 0
    /\ animationFrameRef = Null
    /\ nextStartTimeRef = 0
    /\ sourcesRef = {}
    /\ sessionPromiseRef = Null
    /\ attempt = [a \in Attempts |-> NoAttempt]
    /\ session = [a \in Attempts |-> NoSession]
    /\ inCtx = [a \in Attempts |-> "none"]
    /\ outCtx = [a \in Attempts |-> NoCtx]
    /\ stream = [a \in Attempts |-> "none"]
    /\ processor = [a \in Attempts |-> NoProcessor]
    /\ loops = {}
    /\ pendingDisc = {}
    /\ msg = [m \in Msgs |-> NoMsg]
    /\ lastFrame = [seen |-> FALSE, micOn |-> TRUE, sent |-> FALSE]
    /\ disconnected = FALSE
    /\ chatMounted = FALSE
    /\ messages = <<>>
    /\ input = <<>>
    /\ isLoading = FALSE
    /\ chatRef = Null
    /\ chatKey = FALSE
    /\ requests = [r \in Requests |-> NoRequest]
    /\ chatClock = 0
    /\ submitted = <<>>
    /\ lastSubmit = "none"

Max(a, b) == IF a >= b THEN a ELSE b
Min(a, b) == IF a <= b THEN a ELSE b

\* An awaited promise that has settled: its continuation is a queued microtask.
Settled(d) == session[d.awaits].promise \in {"resolved", "rejected"}
MicrotaskQueued == \E d \in pendingDisc : Settled(d)
\* A new macrotask (user event, SDK callback, timer) starts only when the
\* microtask queue is empty.
Idle == ~MicrotaskQueued

\* ------------------------------------------------------------ cleanupAudio
CloseCtx(states, ref) ==
    IF ref # Null /\ states[ref] # "closed" THEN [states EXCEPT ![ref] = "closed"] ELSE states

CloseOutCtx(states, ref) ==
    IF ref # Null /\ states[ref].st # "closed" THEN [states EXCEPT ![ref].st = "closed"] ELSE states

StopSources(set) ==
    [m \in Msgs |-> IF m \in set /\ msg[m].src = "started"
                    THEN [msg[m] EXCEPT !.src = "stopped"] ELSE msg[m]]

\* cleanupAudio, run on the refs as the calling handler left them.
CleanupAudio(inRef, inStates, outRef, outStates) ==
    /\ loops' = IF animationFrameRef # Null THEN loops \ {animationFrameRef} ELSE loops
    /\ animationFrameRef' = Null
    /\ msg' = StopSources(sourcesRef)
    /\ sourcesRef' = {}
    /\ stream' = IF streamRef # Null THEN [stream EXCEPT ![streamRef] = "stopped"] ELSE stream
    /\ streamRef' = Null
    /\ processor' = IF processorRef # Null
                    THEN [processor EXCEPT ![processorRef].st = "disconnected"] ELSE processor
    /\ inCtx' = CloseCtx(inStates, inRef)
    /\ outCtx' = CloseOutCtx(outStates, outRef)
    /\ inputAudioContextRef' = Null
    /\ outputAudioContextRef' = Null
    /\ nextStartTimeRef' = 0
    /\ sessionPromiseRef' = Null
    /\ isAiSpeaking' = FALSE
    /\ visualVolume' = 0
    /\ currentVolumeRef' = 0
    /\ isConnecting' = FALSE
    /\ UNCHANGED processorRef

\* --------------------------------------------------------- disconnectSession
\* The call up to its await: with a session promise it suspends on it,
\* without one it runs cleanupAudio and setIsActive(false) at once.
DisconnectSession(from, reporter) ==
    IF sessionPromiseRef # Null
    THEN /\ pendingDisc' = pendingDisc \cup
                {[awaits |-> sessionPromiseRef, from |-> from, reporter |-> reporter]}
         /\ UNCHANGED <<isActive, isConnecting, isAiSpeaking, visualVolume, refVars,
                        inCtx, outCtx, stream, processor, loops, msg, disconnected>>
    ELSE /\ CleanupAudio(inputAudioContextRef, inCtx, outputAudioContextRef, outCtx)
         /\ isActive' = FALSE
         /\ disconnected' = TRUE
         /\ UNCHANGED pendingDisc

\* The continuation after `await sessionPromiseRef.current`: session.close()
\* when the promise resolved (the rejection is caught), then cleanupAudio and
\* setIsActive(false).
DisconnectResume(d) ==
    /\ d \in pendingDisc
    /\ Settled(d)
    /\ pendingDisc' = pendingDisc \ {d}
    /\ session' = IF session[d.awaits].promise = "resolved"
                  THEN [session EXCEPT ![d.awaits].closeCalled = TRUE] ELSE session
    /\ CleanupAudio(inputAudioContextRef, inCtx, outputAudioContextRef, outCtx)
    /\ isActive' = FALSE
    /\ disconnected' = TRUE
    /\ UNCHANGED <<mounted, isMicOn, error, outputNodeRef, attempt, lastFrame>>
    /\ UNCHANGED chatVars

\* ------------------------------------------------------------ startVisualLoop
\* One run of update(): visualVolume moves 20% of the way to currentVolumeRef.
\* Volumes are fixed-point, VolOne units to 1.0, rounded down.
\* A variant that moves 120% of the way.
VisualStepOvershoot(prev, cur) == prev + ((cur - prev) * 12) \div 10

VisualStep(prev, cur) == prev + ((cur - prev) * 2) \div 10

\* ------------------------------------------------------------- connectSession
FreshAttempt == CHOOSE a \in Attempts : attempt[a].pc = "none" /\
                    \A b \in Attempts : b < a => attempt[b].pc # "none"

\* Start button: connectSession up to `await getUserMedia`, or through the
\* catch block when an AudioContext constructor throws.
ConnectSession(outcome, outState) ==
    /\ Idle
    /\ mounted
    /\ ~isActive
    /\ ~isConnecting
    /\ \E a \in Attempts : attempt[a].pc = "none"
    /\ LET a == FreshAttempt IN
       IF ~ApiKeyPresent
       THEN /\ error' = "apikey"
            /\ attempt' = [attempt EXCEPT ![a] = [pc |-> "failed", mic |-> isMicOn]]
            /\ CleanupAudio(inputAudioContextRef, inCtx, outputAudioContextRef, outCtx)
            /\ UNCHANGED outputNodeRef
       ELSE CASE outcome = "throwInput" ->
                 /\ error' = "audiocontext"
                 /\ attempt' = [attempt EXCEPT ![a] = [pc |-> "failed", mic |-> isMicOn]]
                 /\ CleanupAudio(inputAudioContextRef, inCtx, outputAudioContextRef, outCtx)
                 /\ UNCHANGED outputNodeRef
              [] outcome = "throwOutput" ->
                 /\ error' = "audiocontext"
                 /\ attempt' = [attempt EXCEPT ![a] = [pc |-> "failed", mic |-> isMicOn]]
                 /\ CleanupAudio(a, [inCtx EXCEPT ![a] = "running"],
                                 outputAudioContextRef, outCtx)
                 /\ UNCHANGED outputNodeRef
              [] outcome = "ok" ->
                 /\ error' = "null"
                 /\ isConnecting' = TRUE
                 /\ attempt' = [attempt EXCEPT ![a] = [pc |-> "getUserMedia", mic |-> isMicOn]]
                 /\ inCtx' = [inCtx EXCEPT ![a] = "running"]
                 /\ outCtx' = [outCtx EXCEPT ![a] = [st |-> outState, time |-> 0]]
                 /\ inputAudioContextRef' = a
                 /\ outputAudioContextRef' = a
                 /\ outputNodeRef' = a
                 /\ UNCHANGED <<isAiSpeaking, visualVolume, processorRef, streamRef,
                                currentVolumeRef, animationFrameRef, nextStartTimeRef,
                                sourcesRef, sessionPromiseRef, stream, processor, loops, msg>>
    /\ disconnected' = FALSE
    /\ UNCHANGED <<mounted, isActive, isMicOn, session, pendingDisc, lastFrame>>
    /\ UNCHANGED chatVars

\* getUserMedia resolved: streamRef is set, live.connect is called and its
\* promise stored in sessionPromiseRef; connectSession returns.
GetUserMediaResolve(a) ==
    /\ Idle
    /\ attempt[a].pc = "getUserMedia"
    /\ attempt' = [attempt EXCEPT ![a].pc = "returned"]
    /\ stream' = [stream EXCEPT ![a] = "live"]
    /\ streamRef' = a
    /\ session' = [session EXCEPT ![a] = [st |-> "connecting", promise |-> "pending",
                                          closeCalled |-> FALSE, errored |-> FALSE]]
    /\ sessionPromiseRef' = a
    /\ UNCHANGED <<mounted, reactVars, inputAudioContextRef, outputAudioContextRef,
                   processorRef, outputNodeRef, currentVolumeRef, animationFrameRef,
                   nextStartTimeRef, sourcesRef, inCtx, outCtx, processor, loops,
                   pendingDisc, msg, lastFrame, disconnected>>
    /\ UNCHANGED chatVars

\* getUserMedia rejected: the catch block.
GetUserMediaReject(a) ==
    /\ Idle
    /\ attempt[a].pc = "getUserMedia"
    /\ attempt' = [attempt EXCEPT ![a].pc = "failed"]
    /\ error' = "getusermedia"
    /\ CleanupAudio(inputAudioContextRef, inCtx, outputAudioContextRef, outCtx)
    /\ UNCHANGED <<mounted, isActive, isMicOn, outputNodeRef, session, pendingDisc,
                   lastFrame, disconnected>>
    /\ UNCHANGED chatVars

\* ------------------------------------------------------------------- onopen
OnOpen(a) ==
    /\ Idle
    /\ session[a].st = "connecting"
    /\ ~session[a].errored
    /\ session' = [session EXCEPT ![a].st = "open", ![a].promise = "resolved"]
    /\ isConnecting' = FALSE
    /\ isActive' = TRUE
    /\ loops' = loops \cup {a}
    /\ visualVolume' = VisualStep(visualVolume, currentVolumeRef)
    /\ animationFrameRef' = a
    /\ IF inputAudioContextRef = Null \/ streamRef = Null
       THEN UNCHANGED <<processorRef, processor>>
       ELSE /\ processorRef' = a
            /\ processor' = [processor EXCEPT ![a] =
                                [st |-> "connected", ctx |-> inputAudioContextRef]]
    /\ UNCHANGED <<mounted, isAiSpeaking, isMicOn, error, inputAudioContextRef,
                   outputAudioContextRef, outputNodeRef, streamRef, currentVolumeRef,
                   nextStartTimeRef, sourcesRef, sessionPromiseRef, attempt, inCtx, outCtx,
                   stream, pendingDisc, msg, lastFrame, disconnected>>
    /\ UNCHANGED chatVars

\* scriptProcessor.onaudioprocess of the processor created by session a, with
\* the isMicOn its connectSession closed over; rms is in units of 1/VolOne.
OnAudioProcess(a, rms) ==
    /\ Idle
    /\ processor[a].st = "connected"
    /\ inCtx[processor[a].ctx] = "running"
    /\ IF ~attempt[a].mic
       THEN /\ currentVolumeRef' = 0
            /\ lastFrame' = [seen |-> TRUE, micOn |-> isMicOn, sent |-> FALSE]
       ELSE /\ currentVolumeRef' = Min(rms * 5, VolOne)
            /\ lastFrame' = [seen |-> TRUE, micOn |-> isMicOn, sent |-> TRUE]
    /\ UNCHANGED <<mounted, reactVars, inputAudioContextRef, outputAudioContextRef,
                   processorRef, outputNodeRef, streamRef, animationFrameRef,
                   nextStartTimeRef, sourcesRef, sessionPromiseRef, attempt, session,
                   inCtx, outCtx, stream, processor, loops, pendingDisc, msg,
                   disconnected>>
    /\ UNCHANGED chatVars

\* ---------------------------------------------------------------- onmessage
FreshMsg == CHOOSE m \in Msgs : msg[m].pc = "none" /\
                \A k \in Msgs : k < m => msg[k].pc # "none"

\* A variant of the interruption block that leaves nextStartTimeRef as it is.
InterruptionBlockNoReset(intr, msgs, set, next, speaking) ==
    IF intr
    THEN /\ msg' = [k \in Msgs |-> IF k \in set /\ msgs[k].src = "started"
                                   THEN [msgs[k] EXCEPT !.src = "stopped"] ELSE msgs[k]]
         /\ sourcesRef' = {}
         /\ nextStartTimeRef' = next
         /\ isAiSpeaking' = FALSE
    ELSE /\ msg' = msgs
         /\ sourcesRef' = set
         /\ nextStartTimeRef' = next
         /\ isAiSpeaking' = speaking

\* The interruption block at the end of onmessage, run on the sources, the
\* set and the refs as the audio block left them.
InterruptionBlock(intr, msgs, set, next, speaking) ==
    IF intr
    THEN /\ msg' = [k \in Msgs |-> IF k \in set /\ msgs[k].src = "started"
                                   THEN [msgs[k] EXCEPT !.src = "stopped"] ELSE msgs[k]]
         /\ sourcesRef' = {}
         /\ nextStartTimeRef' = 0
         /\ isAiSpeaking' = FALSE
    ELSE /\ msg' = msgs
         /\ sourcesRef' = set
         /\ nextStartTimeRef' = next
         /\ isAiSpeaking' = speaking

\* onmessage up to its first await, or to its end for a message without
\* playable audio.
OnMessage(a, audio, intr, dur) ==
    /\ Idle
    /\ session[a].st = "open"
    /\ ~session[a].closeCalled
    /\ audio \/ intr
    /\ \E m \in Msgs : msg[m].pc = "none"
    /\ LET m == FreshMsg
           ctx == outputAudioContextRef
           new == [pc |-> "done", sess |-> a, audio |-> audio, intr |-> intr,
                   dur |-> IF audio THEN dur ELSE 0, ctx |-> Null, src |-> "none",
                   startAt |-> 0, playAt |-> 0]
       IN IF audio /\ outputAudioContextRef # Null /\ outputNodeRef # Null
          THEN IF outCtx[ctx].st = "suspended"
               THEN /\ msg' = [msg EXCEPT ![m] = [new EXCEPT !.pc = "resume", !.ctx = ctx]]
                    /\ UNCHANGED <<nextStartTimeRef, sourcesRef, isAiSpeaking>>
               ELSE /\ msg' = [msg EXCEPT ![m] = [new EXCEPT !.pc = "decode", !.ctx = ctx]]
                    /\ nextStartTimeRef' = Max(nextStartTimeRef, outCtx[ctx].time)
                    /\ UNCHANGED <<sourcesRef, isAiSpeaking>>
          ELSE InterruptionBlock(intr, [msg EXCEPT ![m] = new], sourcesRef,
                                 nextStartTimeRef, isAiSpeaking)
    /\ UNCHANGED <<mounted, isActive, isConnecting, isMicOn, error, visualVolume,
                   inputAudioContextRef, outputAudioContextRef, processorRef, outputNodeRef,
                   streamRef, currentVolumeRef, animationFrameRef, sessionPromiseRef,
                   attempt, session, inCtx, outCtx, stream, processor, loops, pendingDisc,
                   lastFrame, disconnected>>
    /\ UNCHANGED chatVars

\* `await ctx.resume()` completed: the context runs and the handler goes on
\* to read ctx.currentTime and to await decodeAudioData.
\* (An await that never settles is the step not being taken; a rejected await
\* only ends the handler early and changes no state.)
ResumeDone(m) ==
    /\ Idle
    /\ msg[m].pc = "resume"
    /\ outCtx' = IF outCtx[msg[m].ctx].st = "suspended"
                 THEN [outCtx EXCEPT ![msg[m].ctx].st = "running"] ELSE outCtx
    /\ nextStartTimeRef' = Max(nextStartTimeRef, outCtx[msg[m].ctx].time)
    /\ msg' = [msg EXCEPT ![m].pc = "decode"]
    /\ UNCHANGED <<mounted, reactVars, inputAudioContextRef, outputAudioContextRef,
                   processorRef, outputNodeRef, streamRef, currentVolumeRef,
                   animationFrameRef, sourcesRef, sessionPromiseRef, attempt, session,
                   inCtx, stream, processor, loops, pendingDisc, lastFrame, disconnected>>
    /\ UNCHANGED chatVars

\* `await decodeAudioData(...)` completed: the source is created, started at
\* nextStartTimeRef and added to sourcesRef; then the interruption block.
\* source.start(when) with `when` already past begins playback at once, so
\* the chunk is heard from playAt = max(when, ctx.currentTime).
DecodeDone(m) ==
    /\ Idle
    /\ msg[m].pc = "decode"
    /\ LET started == [msg EXCEPT ![m].pc = "done", ![m].src = "started",
                                  ![m].startAt = nextStartTimeRef,
                                  ![m].playAt = Max(nextStartTimeRef,
                                                    outCtx[msg[m].ctx].time)]
       IN InterruptionBlock(msg[m].intr, started, sourcesRef \cup {m},
                            nextStartTimeRef + msg[m].dur, TRUE)
    /\ UNCHANGED <<mounted, isActive, isConnecting, isMicOn, error, visualVolume,
                   inputAudioContextRef, outputAudioContextRef, processorRef, outputNodeRef,
                   streamRef, currentVolumeRef, animationFrameRef, sessionPromiseRef,
                   attempt, session, inCtx, outCtx, stream, processor, loops, pendingDisc,
                   lastFrame, disconnected>>
    /\ UNCHANGED chatVars

\* The 'ended' listener of the source of message m: the source was stopped,
\* or it has played to its end in a running context.
SourceEnded(m) ==
    /\ Idle
    /\ \/ msg[m].src = "stopped"
       \/ /\ msg[m].src = "started"
          /\ outCtx[msg[m].ctx].st = "running"
          /\ outCtx[msg[m].ctx].time >= msg[m].playAt + msg[m].dur
    /\ msg' = [msg EXCEPT ![m].src = "ended"]
    /\ sourcesRef' = sourcesRef \ {m}
    /\ isAiSpeaking' = IF sourcesRef \ {m} = {} THEN FALSE ELSE isAiSpeaking
    /\ UNCHANGED <<mounted, isActive, isConnecting, isMicOn, error, visualVolume,
                   inputAudioContextRef, outputAudioContextRef, processorRef, outputNodeRef,
                   streamRef, currentVolumeRef, animationFrameRef, nextStartTimeRef,
                   sessionPromiseRef, attempt, session, inCtx, outCtx, stream, processor,
                   loops, pendingDisc, lastFrame, disconnected>>
    /\ UNCHANGED chatVars

\* ------------------------------------------------------------------ onclose
\* The socket closed: by the server, after an error, or after session.close().
OnClose(a) ==
    /\ Idle
    /\ \/ session[a].st = "open"
       \/ session[a].st = "connecting" /\ session[a].errored
    /\ session' = [session EXCEPT ![a].st = "closed"]
    /\ isActive' = FALSE
    /\ isAiSpeaking' = FALSE
    /\ isConnecting' = FALSE
    /\ UNCHANGED <<mounted, isMicOn, error, visualVolume, refVars, attempt, inCtx, outCtx,
                   stream, processor, loops, pendingDisc, msg, lastFrame, disconnected>>
    /\ UNCHANGED chatVars

\* ------------------------------------------------------------------ onerror
OnError(a) ==
    /\ Idle
    /\ session[a].st \in {"connecting", "open"}
    /\ ~session[a].errored
    /\ session' = [session EXCEPT ![a].errored = TRUE]
    /\ error' = "connfailed"
    /\ DisconnectSession("onerror", a)
    /\ UNCHANGED <<mounted, isMicOn, outputNodeRef, attempt, lastFrame>>
    /\ UNCHANGED chatVars

\* The promise returned by live.connect rejects; no callback is invoked.
ConnectReject(a) ==
    /\ Idle
    /\ session[a].st = "connecting"
    /\ session' = [session EXCEPT ![a].st = "closed", ![a].promise = "rejected"]
    /\ UNCHANGED <<mounted, reactVars, refVars, attempt, inCtx, outCtx, stream, processor,
                   loops, pendingDisc, msg, lastFrame, disconnected>>
    /\ UNCHANGED chatVars

\* ------------------------------------------------------------- user actions
\* End button (rendered on the active screen).
EndConversation ==
    /\ Idle
    /\ mounted
    /\ isActive
    /\ DisconnectSession("user", Null)
    /\ UNCHANGED <<mounted, isMicOn, error, outputNodeRef, attempt, session, lastFrame>>
    /\ UNCHANGED chatVars

\* The effect cleanup of the component.
Unmount ==
    /\ Idle
    /\ mounted
    /\ mounted' = FALSE
    /\ DisconnectSession("unmount", Null)
    /\ UNCHANGED <<isMicOn, error, outputNodeRef, attempt, session, lastFrame>>
    /\ UNCHANGED chatVars

\* Mic button (rendered on the active screen).
ToggleMic ==
    /\ Idle
    /\ mounted
    /\ isActive
    /\ isMicOn' = ~isMicOn
    /\ UNCHANGED <<mounted, isActive, isConnecting, isAiSpeaking, error, visualVolume,
                   refVars, envVars>>
    /\ UNCHANGED chatVars

\* ------------------------------------------------------------ host platform
\* A requestAnimationFrame callback of the loop started by session l.
AnimationFrame(l) ==
    /\ Idle
    /\ l \in loops
    /\ visualVolume' = VisualStep(visualVolume, currentVolumeRef)
    /\ animationFrameRef' = l
    /\ UNCHANGED <<mounted, isActive, isConnecting, isAiSpeaking, isMicOn, error,
                   inputAudioContextRef, outputAudioContextRef, processorRef, outputNodeRef,
                   streamRef, currentVolumeRef, nextStartTimeRef, sourcesRef,
                   sessionPromiseRef, envVars>>
    /\ UNCHANGED chatVars

\* currentTime of a running output context advances.
Tick(c) ==
    /\ Idle
    /\ outCtx[c].st = "running"
    /\ outCtx[c].time < MaxTime
    /\ outCtx' = [outCtx EXCEPT ![c].time = @ + 1]
    /\ UNCHANGED <<mounted, reactVars, refVars, attempt, session, inCtx, stream, processor,
                   loops, pendingDisc, msg, lastFrame, disconnected>>
    /\ UNCHANGED chatVars

\* ============================================================ ChatInterface
\* The texts the input field can hold, the chat objects the effect can
\* create (a new one differs from the one it replaces), the text of one
\* streamed chunk (empty when the chunk carries no text) and the text shown
\* for a failed request.  Date.now().toString() is injective on the clock
\* values, so ids are compared as the numbers they were made from.
Inputs == {<<>>, <<" ", " ">>, <<"a">>, <<" ", "a", " ">>}
Chats == {1, 2}
ChunkTexts == {<<>>, <<"b">>}
ErrorText == <<"Error">>

\* String.prototype.trim: leading and trailing white space removed.
RECURSIVE TrimStart(_)
TrimStart(s) == IF s # <<>> /\ Head(s) = " " THEN TrimStart(Tail(s)) ELSE s

RECURSIVE TrimEnd(_)
TrimEnd(s) ==
    IF s # <<>> /\ s[Len(s)] = " " THEN TrimEnd(SubSeq(s, 1, Len(s) - 1)) ELSE s

\* A variant of trim that removes nothing.
NoTrim(s) == s

Trim(s) == TrimEnd(TrimStart(s))

\* A variant of the text update that rewrites every message.
SetTextAll(msgs, id, text) ==
    [i \in 1..Len(msgs) |-> [msgs[i] EXCEPT !.text = text]]

\* prev.map(msg => msg.id === tempBotMessageId ? {...msg, text} : msg)
SetText(msgs, id, text) ==
    [i \in 1..Len(msgs) |->
        IF msgs[i].id = id THEN [msgs[i] EXCEPT !.text = text] ELSE msgs[i]]

\* prev.map(msg => msg.id === tempBotMessageId ? {...msg, isStreaming: false} : msg)
EndStreaming(msgs, id) ==
    [i \in 1..Len(msgs) |->
        IF msgs[i].id = id THEN [msgs[i] EXCEPT !.isStreaming = FALSE] ELSE msgs[i]]

\* A request is in flight from the call of sendMessageStream to the end or
\* the failure of its stream.
InFlight == {r \in Requests : requests[r].pc \in {"sending", "streaming"}}

\* The component is rendered and its effect has run: the chat is created
\* when the build has an API key.  (App renders LiveVoice only, so the
\* component starts unmounted.)
ChatMount(key) ==
    /\ Idle
    /\ ~chatMounted
    /\ chatMounted' = TRUE
    /\ chatKey' = key
    /\ chatRef' = IF key THEN 1 ELSE Null
    /\ UNCHANGED <<messages, input, isLoading, requests, chatClock, submitted, lastSubmit>>
    /\ UNCHANGED <<mounted, reactVars, refVars, envVars>>

\* config.modelName changes: the effect runs again and replaces the chat.
ModelNameChange ==
    /\ Idle
    /\ chatMounted
    /\ chatKey
    /\ chatRef' \in Chats \ {chatRef}
    /\ UNCHANGED <<chatMounted, messages, input, isLoading, chatKey, requests, chatClock,
                   submitted, lastSubmit>>
    /\ UNCHANGED <<mounted, reactVars, refVars, envVars>>

\* onChange of the input field, which is disabled while isLoading.
SetInput(v) ==
    /\ Idle
    /\ chatMounted
    /\ ~isLoading
    /\ input' = v
    /\ UNCHANGED <<chatMounted, messages, isLoading, chatRef, chatKey, requests, chatClock,
                   submitted, lastSubmit>>
    /\ UNCHANGED <<mounted, reactVars, refVars, envVars>>

\* handleSubmit up to `await sendMessageStream`; d is the time that passes
\* between its two reads of Date.now().
HandleSubmit(d) ==
    /\ Idle
    /\ chatMounted
    /\ IF Trim(input) = <<>> \/ chatRef = Null \/ isLoading
       THEN /\ lastSubmit' = "rejected"
            /\ UNCHANGED <<messages, input, isLoading, requests, chatClock, submitted>>
       ELSE /\ Len(submitted) < MaxSubmits
            /\ chatClock + d <= MaxClock
            /\ LET r == Len(submitted) + 1
                   userMessage == [id |-> chatClock, role |-> "user", text |-> input,
                                   isStreaming |-> FALSE]
                   tempBotMessageId == chatClock + d + 1
                   tempBotMessage == [id |-> tempBotMessageId, role |-> "model",
                                      text |-> <<>>, isStreaming |-> TRUE]
               IN /\ messages' = messages \o <<userMessage, tempBotMessage>>
                  /\ requests' = [requests EXCEPT ![r] =
                         [pc |-> "sending", botId |-> tempBotMessageId, fullText |-> <<>>]]
            /\ input' = <<>>
            /\ isLoading' = TRUE
            /\ chatClock' = chatClock + d
            /\ submitted' = Append(submitted, input)
            /\ lastSubmit' = "accepted"
    /\ UNCHANGED <<chatMounted, chatRef, chatKey>>
    /\ UNCHANGED <<mounted, reactVars, refVars, envVars>>

\* `await chatRef.current.sendMessageStream(...)` resolved with the stream.
SendResolved(r) ==
    /\ Idle
    /\ requests[r].pc = "sending"
    /\ requests' = [requests EXCEPT ![r].pc = "streaming"]
    /\ UNCHANGED <<chatMounted, messages, input, isLoading, chatRef, chatKey, chatClock,
                   submitted, lastSubmit>>
    /\ UNCHANGED <<mounted, reactVars, refVars, envVars>>

\* One iteration of `for await (const chunk of resultStream)`.
Chunk(r, c) ==
    /\ Idle
    /\ requests[r].pc = "streaming"
    /\ IF c # <<>>
       THEN /\ Len(requests[r].fullText) < MaxChunks
            /\ requests' = [requests EXCEPT ![r].fullText = @ \o c]
            /\ messages' = SetText(messages, requests[r].botId, requests[r].fullText \o c)
       ELSE UNCHANGED <<requests, messages>>
    /\ UNCHANGED <<chatMounted, input, isLoading, chatRef, chatKey, chatClock, submitted,
                   lastSubmit>>
    /\ UNCHANGED <<mounted, reactVars, refVars, envVars>>

\* The stream ended: the reply is marked complete; then the finally block.
StreamEnd(r) ==
    /\ Idle
    /\ requests[r].pc = "streaming"
    /\ requests' = [requests EXCEPT ![r].pc = "done"]
    /\ messages' = EndStreaming(messages, requests[r].botId)
    /\ isLoading' = FALSE
    /\ UNCHANGED <<chatMounted, input, chatRef, chatKey, chatClock, submitted, lastSubmit>>
    /\ UNCHANGED <<mounted, reactVars, refVars, envVars>>

\* sendMessageStream or the stream threw: the catch block, then finally.
RequestFailed(r) ==
    /\ Idle
    /\ requests[r].pc \in {"sending", "streaming"}
    /\ requests' = [requests EXCEPT ![r].pc = "done"]
    /\ messages' = EndStreaming(SetText(messages, requests[r].botId, ErrorText),
                                requests[r].botId)
    /\ isLoading' = FALSE
    /\ UNCHANGED <<chatMounted, input, chatRef, chatKey, chatClock, submitted, lastSubmit>>
    /\ UNCHANGED <<mounted, reactVars, refVars, envVars>>

\* A millisecond passes on the clock read by Date.now().
ClockTick ==
    /\ Idle
    /\ chatMounted
    /\ chatClock < MaxClock
    /\ chatClock' = chatClock + 1
    /\ UNCHANGED <<chatMounted, messages, input, isLoading, chatRef, chatKey, requests,
                   submitted, lastSubmit>>
    /\ UNCHANGED <<mounted, reactVars, refVars, envVars>>

NextChat ==
    \/ \E k \in BOOLEAN : ChatMount(k)
    \/ ModelNameChange
    \/ \E v \in Inputs : SetInput(v)
    \/ \E d \in {0, 1} : HandleSubmit(d)
    \/ \E r \in Requests : SendResolved(r)
    \/ \E r \in Requests, c \in ChunkTexts : Chunk(r, c)
    \/ \E r \in Requests : StreamEnd(r)
    \/ \E r \in Requests : RequestFailed(r)
    \/ ClockTick

SpecChat == Init /\ [][NextChat]_vars

ChatTypeOK ==
    /\ chatMounted \in BOOLEAN /\ isLoading \in BOOLEAN /\ chatKey \in BOOLEAN
    /\ input \in Inputs
    /\ chatRef \in {Null} \cup Chats
    /\ chatClock \in 0..MaxClock
    /\ Len(messages) <= 2 * MaxSubmits
    /\ \A i \in 1..Len(messages) :
          /\ messages[i].role \in {"user", "model"}
          /\ messages[i].id \in 0..(MaxClock + 1)
          /\ messages[i].isStreaming \in BOOLEAN
    /\ \A r \in Requests : requests[r].pc \in {"none", "sending", "streaming", "done"}
    /\ Len(submitted) <= MaxSubmits
    /\ lastSubmit \in {"none", "accepted", "rejected"}

\* rms of a frame in units of 1/VolOne: silence, 0.08, and 0.28 (which
\* rms * 5 takes above 1).
RmsLevels == {0, 2, 7}
Outcomes == {"ok", "throwInput", "throwOutput"}

Next ==
    \/ \E o \in Outcomes, s \in {"running", "suspended"} : ConnectSession(o, s)
    \/ \E a \in Attempts : GetUserMediaResolve(a)
    \/ \E a \in Attempts : GetUserMediaReject(a)
    \/ \E a \in Attempts : OnOpen(a)
    \/ \E a \in Attempts, r \in RmsLevels : OnAudioProcess(a, r)
    \/ \E a \in Attempts, au \in BOOLEAN, i \in BOOLEAN, d \in Durations : OnMessage(a, au, i, d)
    \/ \E m \in Msgs : ResumeDone(m)
    \/ \E m \in Msgs : DecodeDone(m)
    \/ \E m \in Msgs : SourceEnded(m)
    \/ \E a \in Attempts : OnClose(a)
    \/ \E a \in Attempts : OnError(a)
    \/ \E a \in Attempts : ConnectReject(a)
    \/ \E d \in pendingDisc : DisconnectResume(d)
    \/ EndConversation
    \/ Unmount
    \/ ToggleMic
    \/ \E l \in Attempts : AnimationFrame(l)
    \/ \E c \in Attempts : Tick(c)
    \/ NextChat

Spec == Init /\ [][Next]_vars

\* The connection lifecycle alone.  The actions left out (messages, audio
\* frames, animation frames, the mic button, the clocks) write only msg,
\* sourcesRef, nextStartTimeRef, isAiSpeaking, currentVolumeRef, visualVolume,
\* animationFrameRef, isMicOn, lastFrame and the context clocks, none of which
\* a lifecycle action reads to decide what it does to the other variables.
NextSession ==
    \/ \E o \in Outcomes, s \in {"running", "suspended"} : ConnectSession(o, s)
    \/ \E a \in Attempts : GetUserMediaResolve(a)
    \/ \E a \in Attempts : GetUserMediaReject(a)
    \/ \E a \in Attempts : OnOpen(a)
    \/ \E a \in Attempts : OnClose(a)
    \/ \E a \in Attempts : OnError(a)
    \/ \E a \in Attempts : ConnectReject(a)
    \/ \E d \in pendingDisc : DisconnectResume(d)
    \/ EndConversation
    \/ Unmount

SpecSession == Init /\ [][NextSession]_vars

\* The lifecycle with the playback of model audio: onmessage, its awaits, the
\* 'ended' events and the clocks of the output contexts.
AttemptsMade == Cardinality({a \in Attempts : attempt[a].pc # "none"})

NextPlayback ==
    \/ \E o \in Outcomes, s \in {"running", "suspended"} :
          AttemptsMade < MaxPlaybackAttempts /\ ConnectSession(o, s)
    \/ \E a \in Attempts : GetUserMediaResolve(a)
    \/ \E a \in Attempts : GetUserMediaReject(a)
    \/ \E a \in Attempts : OnOpen(a)
    \/ \E a \in Attempts : OnClose(a)
    \/ \E a \in Attempts : OnError(a)
    \/ \E a \in Attempts : ConnectReject(a)
    \/ \E d \in pendingDisc : DisconnectResume(d)
    \/ EndConversation
    \/ Unmount
    \/ \E a \in Attempts, au \in BOOLEAN, i \in BOOLEAN, d \in Durations : OnMessage(a, au, i, d)
    \/ \E m \in Msgs : ResumeDone(m)
    \/ \E m \in Msgs : DecodeDone(m)
    \/ \E m \in Msgs : SourceEnded(m)
    \/ \E c \in Attempts : Tick(c)

SpecPlayback == Init /\ [][NextPlayback]_vars

\* Playback within a single connection attempt and its session.
NextPlaybackOne ==
    \/ \E o \in Outcomes, s \in {"running", "suspended"} :
          AttemptsMade = 0 /\ ConnectSession(o, s)
    \/ \E a \in Attempts : GetUserMediaResolve(a)
    \/ \E a \in Attempts : GetUserMediaReject(a)
    \/ \E a \in Attempts : OnOpen(a)
    \/ \E a \in Attempts : OnClose(a)
    \/ \E a \in Attempts : OnError(a)
    \/ \E a \in Attempts : ConnectReject(a)
    \/ \E d \in pendingDisc : DisconnectResume(d)
    \/ EndConversation
    \/ Unmount
    \/ \E a \in Attempts, au \in BOOLEAN, i \in BOOLEAN, d \in Durations : OnMessage(a, au, i, d)
    \/ \E m \in Msgs : ResumeDone(m)
    \/ \E m \in Msgs : DecodeDone(m)
    \/ \E m \in Msgs : SourceEnded(m)
    \/ \E c \in Attempts : Tick(c)

SpecPlaybackOne == Init /\ [][NextPlaybackOne]_vars

\* The lifecycle with the microphone path and the visual loop, for up to
\* MaxMicAttempts calls of connectSession (a second session is what it takes
\* to have two script processors and two visual loops).
NextMic ==
    \/ \E o \in Outcomes, s \in {"running", "suspended"} :
          AttemptsMade < MaxMicAttempts /\ ConnectSession(o, s)
    \/ \E a \in Attempts : GetUserMediaResolve(a)
    \/ \E a \in Attempts : GetUserMediaReject(a)
    \/ \E a \in Attempts : OnOpen(a)
    \/ \E a \in Attempts : OnClose(a)
    \/ \E a \in Attempts : OnError(a)
    \/ \E a \in Attempts : ConnectReject(a)
    \/ \E d \in pendingDisc : DisconnectResume(d)
    \/ EndConversation
    \/ Unmount
    \/ \E a \in Attempts, r \in RmsLevels : OnAudioProcess(a, r)
    \/ \E l \in Attempts : AnimationFrame(l)
    \/ ToggleMic

SpecMic == Init /\ [][NextMic]_vars

\* The microphone level and the visual loop within a single connection
\* attempt and its session.
NextVolume ==
    \/ \E o \in Outcomes, s \in {"running", "suspended"} :
          AttemptsMade = 0 /\ ConnectSession(o, s)
    \/ \E a \in Attempts : GetUserMediaResolve(a)
    \/ \E a \in Attempts : GetUserMediaReject(a)
    \/ \E a \in Attempts : OnOpen(a)
    \/ \E a \in Attempts : OnClose(a)
    \/ \E a \in Attempts : OnError(a)
    \/ \E a \in Attempts : ConnectReject(a)
    \/ \E d \in pendingDisc : DisconnectResume(d)
    \/ EndConversation
    \/ Unmount
    \/ \E a \in Attempts, r \in RmsLevels : OnAudioProcess(a, r)
    \/ \E l \in Attempts : AnimationFrame(l)
    \/ ToggleMic

SpecVolume == Init /\ [][NextVolume]_vars

TypeOK ==
    /\ isActive \in BOOLEAN /\ isConnecting \in BOOLEAN /\ isAiSpeaking \in BOOLEAN
    /\ visualVolume \in 0..VolOne /\ currentVolumeRef \in 0..VolOne
    /\ sourcesRef \subseteq Msgs
    /\ inputAudioContextRef \in {Null} \cup Attempts
    /\ inputAudioContextRef # Null => inCtx[inputAudioContextRef] = "running"
    /\ ChatTypeOK

\* ------------------------------------------------------------- fair lifecycle
\* The lifecycle under the scheduling the platform gives: a continuation whose
\* promise has settled runs, getUserMedia settles, and every connection
\* attempt has an outcome (it opens, reports an error, or its promise rejects).
SpecSessionFair ==
    /\ Init /\ [][NextSession]_vars
    /\ WF_vars(\E d \in pendingDisc : DisconnectResume(d))
    /\ WF_vars(\E a \in Attempts : GetUserMediaResolve(a) \/ GetUserMediaReject(a))
    /\ WF_vars(\E a \in Attempts : OnOpen(a) \/ OnError(a) \/ ConnectReject(a))

\* ---------------------------------------------------------------- vocabulary
\* The session created by the latest connectSession call that got as far as
\* live.connect (Null when there is none).
CurrentSession ==
    IF \E a \in Attempts : session[a].st # "none"
    THEN CHOOSE a \in Attempts : session[a].st # "none" /\
             \A b \in Attempts : session[b].st # "none" => b <= a
    ELSE Null

\* Session a has opened and was not closed, torn down by onerror or ended.
Live(a) == session[a].st = "open" /\ ~session[a].closeCalled /\ ~session[a].errored

\* Attempt a is under way: awaiting getUserMedia or the opening of its session.
Connecting(a) ==
    \/ attempt[a].pc = "getUserMedia"
    \/ session[a].st = "connecting" /\ ~session[a].errored

\* ------------------------------------------------------------------------ C1
\* C1: audio is played back in arrival order: of two audio messages A, B of
\* one session, A handed to onmessage before B and no interruption from A to B,
\* the start time given to source.start for A is at most the one given for B,
\* whatever the order in which their awaited calls complete.
C1_ArrivalOrder ==
    \A A \in Msgs, B \in Msgs :
        ( /\ A < B
          /\ msg[A].sess = msg[B].sess
          /\ msg[A].audio /\ msg[B].audio
          /\ msg[A].src # "none" /\ msg[B].src # "none"
          /\ \A k \in A..B : ~msg[k].intr )
        => msg[A].startAt <= msg[B].startAt

\* ------------------------------------------------------------------------ C2
\* C2: between handlers of the mounted component, isActive is true exactly when
\* the current live session has opened and has not since been closed by
\* onclose, torn down by onerror or ended by disconnectSession.
C2_ActiveIffLive ==
    (mounted /\ Idle) =>
        (isActive <=> (CurrentSession # Null /\ Live(CurrentSession)))

\* ------------------------------------------------------------------------ C3
\* C3: when connectSession returns through its catch block, error is set,
\* isConnecting and isActive are false, and the resources of the attempt are
\* released: its stream stopped, its two contexts closed, and streamRef, both
\* context refs and sessionPromiseRef null.
C3_FailedStartReleased ==
    [][\A a \in Attempts :
          (mounted /\ attempt[a].pc # "failed" /\ attempt'[a].pc = "failed") =>
              /\ error' # "null"
              /\ ~isConnecting'
              /\ ~isActive'
              /\ streamRef' = Null
              /\ inputAudioContextRef' = Null
              /\ outputAudioContextRef' = Null
              /\ sessionPromiseRef' = Null
              /\ stream'[a] # "live"
              /\ inCtx'[a] # "running"
              /\ outCtx'[a].st \in {"none", "closed"}]_vars

\* ----------------------------------------------------------------------- C10
\* C10: at most one connection attempt or live session exists at any time.
C10_AtMostOne ==
    Cardinality({a \in Attempts : Connecting(a) \/ Live(a)}) <= 1

\* ------------------------------------------------------------------------ C4
\* C4: every connection attempt ends: once isConnecting is true, eventually
\* (unless the component is unmounted) isConnecting is false with the session
\* open or an error shown.
C4_AttemptEnds ==
    (mounted /\ isConnecting) ~>
        (~mounted \/ (~isConnecting /\ (isActive \/ error # "null")))

\* ------------------------------------------------------------------------ C5
\* C5 (its last clause): the disconnectSession started by onerror closes the
\* session that reported the error and no other one.
C5_OnlyReporterClosed ==
    \A d \in pendingDisc : d.from = "onerror" => d.awaits = d.reporter

\* ------------------------------------------------------------------------ C7
\* C7: a PCM frame delivered to onaudioprocess is sent to the session exactly
\* when isMicOn is true at that time, and with isMicOn false the frame sets
\* currentVolumeRef to 0.
C7_MuteStopsForwarding ==
    lastFrame.seen =>
        /\ lastFrame.sent <=> lastFrame.micOn
        /\ ~lastFrame.micOn => currentVolumeRef = 0

\* ------------------------------------------------------------------------ C8
\* C8: no audio chunk is started (and added to sourcesRef) once an interrupted
\* message of its session that arrived after it has been handled.
C8_InterruptionCancelsPending ==
    [][\A m \in Msgs :
          (msg[m].src = "none" /\ msg'[m].src # "none") =>
              ~\E k \in Msgs : /\ k > m
                               /\ msg[k].sess = msg[m].sess
                               /\ msg[k].intr
                               /\ msg[k].pc = "done"]_vars

\* ------------------------------------------------------------------------ C9
IdleComponent ==
    /\ sourcesRef = {}
    /\ streamRef = Null
    /\ inputAudioContextRef = Null
    /\ outputAudioContextRef = Null
    /\ sessionPromiseRef = Null
    /\ animationFrameRef = Null
    /\ nextStartTimeRef = 0
    /\ currentVolumeRef = 0
    /\ visualVolume = 0
    /\ ~isActive /\ ~isConnecting /\ ~isAiSpeaking

\* C9: from the completion of disconnectSession to the next connectSession
\* call the (mounted) component is idle, whatever callbacks of the ended
\* session run or resume.
C9_IdleAfterDisconnect == (mounted /\ disconnected) => IdleComponent

\* ------------------------------------------------------------------------ C6
\* C6: at the end of an onmessage run for a message with `interrupted` set
\* (audio chunk or not), every source that was in sourcesRef, the one this
\* message started included, is stopped, sourcesRef is empty,
\* nextStartTimeRef is 0 and isAiSpeaking is false.
C6_InterruptionResets ==
    [][\A m \in Msgs :
          (msg[m].pc # "done" /\ msg'[m].pc = "done" /\ msg'[m].intr) =>
              /\ sourcesRef' = {}
              /\ nextStartTimeRef' = 0
              /\ ~isAiSpeaking'
              /\ \A k \in sourcesRef \cup {m} : msg'[k].src # "started"]_vars

\* An interrupted message that carried audio has been handled while an
\* earlier chunk was playing: both sources are stopped.
C6_Witness ==
    \E m \in Msgs, k \in Msgs :
        /\ k < m
        /\ msg[m].pc = "done" /\ msg[m].intr /\ msg[m].audio
        /\ msg[m].src = "stopped" /\ msg[k].src = "stopped"
        /\ msg[k].sess = msg[m].sess
        /\ isActive /\ outputAudioContextRef # Null
        /\ sourcesRef = {} /\ nextStartTimeRef = 0 /\ ~isAiSpeaking

\* ----------------------------------------------------------------------- C11
\* No session is open, no attempt is under way (none awaited, and the
\* component does not show one) and no disconnectSession is suspended.
NothingOpen ==
    /\ pendingDisc = {}
    /\ ~isConnecting
    /\ \A a \in Attempts : ~Live(a) /\ ~Connecting(a)

\* C11: whenever no session is open and no connection attempt is in progress,
\* the microphone stream is released (streamRef is null) and no script
\* processor is left connected to deliver PCM frames.
C11_MicEndsWithSession ==
    (mounted /\ NothingOpen) =>
        /\ streamRef = Null
        /\ \A a \in Attempts : processor[a].st # "connected"

\* ----------------------------------------------------------------------- C12
\* C12: when onopen fires for a session, nextStartTimeRef is 0 and sourcesRef
\* is empty, however the previous session ended.
C12_FreshPlaybackState ==
    [][\A a \in Attempts :
          (session[a].st = "connecting" /\ session'[a].st = "open") =>
              (nextStartTimeRef' = 0 /\ sourcesRef' = {})]_vars

\* ----------------------------------------------------------------------- C13
\* C13: between handlers, isAiSpeaking is true exactly when sourcesRef is
\* non-empty.
C13_SpeakingIffSources ==
    (mounted /\ Idle) => (isAiSpeaking <=> sourcesRef # {})

\* ----------------------------------------------------------------------- C15
\* C15: at most one visual loop is running, animationFrameRef refers to its
\* pending callback, and no loop is running while no session is open.
C15_OneVisualLoop ==
    /\ Cardinality(loops) <= 1
    /\ loops # {} => animationFrameRef \in loops
    /\ (mounted /\ pendingDisc = {} /\ \A a \in Attempts : ~Live(a)) => loops = {}

\* ----------------------------------------------------------------------- C14
\* C14: two chunks of one uninterrupted run (both started, neither stopped, on
\* the same output context) never play over each other: the playback interval
\* [playAt, playAt + dur) of one ends before the other's begins.
C14_NoOverlap ==
    \A A \in Msgs, B \in Msgs :
        ( /\ A # B
          /\ msg[A].src = "started" /\ msg[B].src = "started"
          /\ msg[A].ctx = msg[B].ctx
          /\ msg[A].sess = msg[B].sess )
        => \/ msg[A].playAt + msg[A].dur <= msg[B].playAt
           \/ msg[B].playAt + msg[B].dur <= msg[A].playAt

\* ----------------------------------------------------------------------- C16
\* C16: the message list of ChatInterface is the sequence of (user, model)
\* pairs of the accepted submits in submission order, each user message
\* carrying the text submitted; a step either leaves the list's length, ids
\* and roles as they are or appends exactly one (user, model) pair.
C16_PairsInOrder ==
    /\ [](/\ Len(messages) = 2 * Len(submitted)
          /\ \A i \in 1..Len(submitted) :
                /\ messages[2 * i - 1].role = "user"
                /\ messages[2 * i - 1].text = submitted[i]
                /\ messages[2 * i].role = "model")
    /\ [][/\ Len(messages') \in {Len(messages), Len(messages) + 2}
          /\ \A i \in 1..Len(messages) :
                /\ messages'[i].id = messages[i].id
                /\ messages'[i].role = messages[i].role]_vars

\* Two submits were accepted, the second in the millisecond after the first
\* (its user message has the id of the first reply), and its reply was
\* streamed to the end.
C16_Witness ==
    /\ Len(messages) = 4
    /\ messages[2].id = messages[3].id
    /\ messages[4].text = <<"b">>
    /\ ~messages[4].isStreaming
    /\ messages[3].text = submitted[2]

\* ----------------------------------------------------------------------- C17
\* C17: handleSubmit appends messages or puts a request in flight only when
\* the input has a character other than white space, the chat exists and
\* nothing is in flight; a rejected call changes none of messages, input,
\* isLoading and the requests.  At most one request is in flight and
\* isLoading is true exactly while one is.
C17_SubmitGuard ==
    /\ [](Cardinality(InFlight) <= 1 /\ (isLoading <=> InFlight # {}))
    /\ [][/\ (Len(messages') > Len(messages) \/ InFlight' \ InFlight # {}) =>
                /\ \E i \in 1..Len(input) : input[i] # " "
                /\ chatRef # Null
                /\ ~isLoading
                /\ InFlight = {}
          /\ (lastSubmit' = "rejected" /\ lastSubmit # "rejected") =>
                UNCHANGED <<messages, input, isLoading, requests>>]_vars

\* A call of handleSubmit was rejected while the request of an accepted one
\* was in flight.
C17_Witness ==
    /\ lastSubmit = "rejected"
    /\ isLoading
    /\ Cardinality(InFlight) = 1
    /\ Len(messages) = 2

\* ----------------------------------------------------------------------- C18
\* C18: currentVolumeRef and visualVolume stay within [0, 1] (0..VolOne), and
\* each animation frame leaves visualVolume between its old value and
\* currentVolumeRef (never past it, never away from it), having moved it 20%
\* of the way up to the rounding of the fixed-point scale (less than one unit).
C18_VolumeTracks ==
    /\ [](currentVolumeRef \in 0..VolOne /\ visualVolume \in 0..VolOne)
    /\ [][(\E l \in Attempts : AnimationFrame(l)) =>
            /\ visualVolume' >= Min(visualVolume, currentVolumeRef)
            /\ visualVolume' <= Max(visualVolume, currentVolumeRef)
            /\ 5 * (visualVolume' - visualVolume) - (currentVolumeRef - visualVolume)
                   \in -4..4]_vars

\* A frame whose rms * 5 exceeds 1 was clamped to 1, and two animation
\* frames have moved visualVolume from 0 to 0.2 and then to 0.36.
C18_Witness ==
    /\ lastFrame.sent
    /\ currentVolumeRef = VolOne
    /\ visualVolume = 9

====
